---- MODULE Spec2Model ----
(***************************************************************************)
(* A model of forced-sub_auto-flagging_mkv_Script.py: the forced-track     *)
(* classifier (should_be_forced, analyze_subtitle_tracks), the track       *)
(* identity reconciler (parse_mkvinfo_output) and the batch pipeline       *)
(* (analyze_and_fix_mkv_files, set_forced_flag).                           *)
(*                                                                         *)
(* Python strings are sequences of tokens: a token is one character        *)
(* (a digit, a sign, a blank, a bracket, a colon) or an atomic fragment of *)
(* text ("Track number", "subtitles").  Python dicts are functions whose   *)
(* DOMAIN is the set of keys present.                                      *)
(***************************************************************************)
EXTENDS Integers, Sequences, FiniteSets, TLC

VARIABLES
  cl_tracks,        \* should_be_forced loop: subtitle_info (line 67/88)
  cl_i,             \* should_be_forced loop: index of the next track of line 88
  pdump,            \* parse_mkvinfo_output: the lines of mkvinfo_output read so far
  parser,           \* parse_mkvinfo_output: current_track, track_mapping, errors logged
  pc,               \* analyze_and_fix_mkv_files: the place in the function
  mkv_files,        \* line 155
  file_i,           \* line 163: the position of mkv_file in mkv_files
  mediainfo_result, \* line 169
  mkvinfo_result,   \* line 173
  track_mapping,    \* line 178
  subtitle_tracks,  \* line 185
  tracks_to_force,  \* line 202: positions in subtitle_tracks (the same dicts)
  apply_i,          \* line 228: the position in tracks_to_force
  editor_calls,     \* the mkvpropedit runs of line 138 made for the current file
  log_errors,       \* the logging.error records written for the current file
  file_status       \* how the loop body of line 163 ended for each file

clvars == <<cl_tracks, cl_i>>

pvars == <<pdump, parser>>

filevars ==
  <<mediainfo_result, mkvinfo_result, track_mapping, subtitle_tracks,
    tracks_to_force, apply_i, editor_calls, log_errors>>

bvars == <<pc, mkv_files, file_i, filevars, file_status>>

vars == <<clvars, pvars, bvars>>

(***************************************************************************)
(* Bounds of the model.                                                    *)
(***************************************************************************)
MaxSiblings == 3

(***************************************************************************)
(* Python strings and int().                                               *)
(***************************************************************************)
DigitVal ==
  ("0" :> 0) @@ ("1" :> 1) @@ ("2" :> 2) @@ ("3" :> 3) @@ ("4" :> 4) @@
  ("5" :> 5) @@ ("6" :> 6) @@ ("7" :> 7) @@ ("8" :> 8) @@ ("9" :> 9)

IsDigit(c) == c \in DOMAIN DigitVal

\* str.strip(): blanks removed at both ends
RECURSIVE strip(_)
strip(s) ==
  IF s = <<>> THEN s
  ELSE IF Head(s) = " " THEN strip(Tail(s))
  ELSE IF s[Len(s)] = " " THEN strip(SubSeq(s, 1, Len(s) - 1))
  ELSE s

\* the digits of an int() literal: blanks stripped, one leading sign dropped
IntBody(s) ==
  LET t == strip(s)
  IN  IF t # <<>> /\ Head(t) \in {"-", "+"} THEN Tail(t) ELSE t

\* int(s) returns (TRUE) or raises ValueError (FALSE)
IntParses(s) ==
  LET b == IntBody(s)
  IN  b # <<>> /\ \A k \in 1..Len(b) : IsDigit(b[k])

RECURSIVE DigitsValue(_)
DigitsValue(b) ==
  IF b = <<>> THEN 0
  ELSE 10 * DigitsValue(SubSeq(b, 1, Len(b) - 1)) + DigitVal[b[Len(b)]]

\* the value of int(s) where it parses
int(s) ==
  IF Head(strip(s)) = "-" THEN 0 - DigitsValue(IntBody(s))
  ELSE DigitsValue(IntBody(s))

\* dict.get(key, default)
Get(d, key, default) == IF key \in DOMAIN d THEN d[key] ELSE default

\* d[key] = value on a dict
Put(d, key, value) == (key :> value) @@ d

(***************************************************************************)
(* should_be_forced (lines 40-63).                                         *)
(***************************************************************************)
ForcedMaxElements == 400
ForcedMaxPercent == 20

\* line 51 with the language filter dropped
same_language_tracks_any(language, all_tracks) == all_tracks

\* line 51
same_language_tracks(language, all_tracks) ==
  SelectSeq(all_tracks, LAMBDA t : t["language"] = language)

\* max() of line 52 over the parsed counts of a non-empty sequence
RECURSIVE max_element_count(_)
max_element_count(tracks) ==
  IF Len(tracks) = 1 THEN int(tracks[1]["element_count"])
  ELSE LET m == max_element_count(Tail(tracks))
           h == int(tracks[1]["element_count"])
       IN  IF h >= m THEN h ELSE m

\* line 55; the float is kept as the exact fraction num/den, den > 0
percentage_of(element_count, max_elements) ==
  IF max_elements > 0
    THEN [num |-> element_count * 100, den |-> max_elements]
    ELSE [num |-> 100, den |-> 1]

\* percentage < n for the fraction of line 55
PctLess(p, n) == p.num < n * p.den

\* line 60 with "and" in place of "or"
forced_decision_and(element_count, percentage) ==
  element_count < ForcedMaxElements /\ PctLess(percentage, ForcedMaxPercent)

\* line 60
forced_decision(element_count, percentage) ==
  element_count < ForcedMaxElements \/ PctLess(percentage, ForcedMaxPercent)

\* lines 46-63 with the sibling counts of line 52 not guarded: a sibling that
\* does not parse is skipped instead of raising
should_be_forced_skipping(track, all_tracks) ==
  IF ~IntParses(track["element_count"]) THEN [ret |-> FALSE, track |-> track]
  ELSE
    LET element_count == int(track["element_count"])
        group == SelectSeq(same_language_tracks(track["language"], all_tracks),
                           LAMBDA t : IntParses(t["element_count"]))
        percentage == percentage_of(element_count, max_element_count(group))
    IN  [ret   |-> forced_decision(element_count, percentage),
         track |-> Put(track, "percentage", percentage)]

\* lines 46-63: ret is the value returned, track the dict after the call
\* (line 58 stores the percentage); ValueError of int() or of max() on an
\* empty sequence is caught at line 62
should_be_forced(track, all_tracks) ==
  IF ~IntParses(track["element_count"]) THEN [ret |-> FALSE, track |-> track]
  ELSE
    LET element_count == int(track["element_count"])
        group == same_language_tracks(track["language"], all_tracks)
    IN  IF group = <<>> \/ \E k \in 1..Len(group) : ~IntParses(group[k]["element_count"])
          THEN [ret |-> FALSE, track |-> track]
          ELSE
            LET percentage == percentage_of(element_count, max_element_count(group))
            IN  [ret   |-> forced_decision(element_count, percentage),
                 track |-> Put(track, "percentage", percentage)]

\* one pass of the loop of lines 88-89 over subtitle_info from index k on
RECURSIVE classify_from(_, _)
classify_from(subtitle_info, k) ==
  IF k > Len(subtitle_info) THEN subtitle_info
  ELSE
    LET r == should_be_forced(subtitle_info[k], subtitle_info)
    IN  classify_from(
          [subtitle_info EXCEPT ![k] = Put(r.track, "should_be_forced", r.ret)],
          k + 1)

(***************************************************************************)
(* parse_mkvinfo_output (lines 93-128).                                    *)
(***************************************************************************)
MaxLines == 6

EmptyDict == [k \in {} |-> k]

\* the first position of token c in s, 0 when there is none
FirstAt(s, c) ==
  IF \E k \in 1..Len(s) : s[k] = c
    THEN CHOOSE k \in 1..Len(s) : s[k] = c /\ \A j \in 1..(k - 1) : s[j] # c
    ELSE 0

\* str.split(sep): the pieces between the occurrences of sep
RECURSIVE split(_, _)
split(s, sep) ==
  LET k == FirstAt(s, sep)
  IN  IF k = 0 THEN <<s>>
      ELSE <<SubSeq(s, 1, k - 1)>> \o split(SubSeq(s, k + 1, Len(s)), sep)

\* str.lower() on one token
lower(tok) ==
  CASE tok \in {"SUBTITLES", "Subtitles"} -> "subtitles"
    [] tok = "Track type" -> "track type"
    [] tok = "Track number" -> "track number"
    [] tok = "Track" -> "track"
    [] OTHER -> tok

\* token a directly followed by a token of B somewhere in the line
Adjacent(line, a, B) ==
  \E k \in 1..(Len(line) - 1) : line[k] = a /\ line[k + 1] \in B

\* '| + Track' in line (line 101)
has_new_track(line) ==
  Adjacent(line, "| + ", {"Track", "Track number", "Track type"})

\* 'Track number:' in line (line 105)
has_track_number(line) == Adjacent(line, "Track number", {":"})

\* 'Track type:' in line (lines 118, 124)
has_track_type(line) == Adjacent(line, "Track type", {":"})

\* line 118 matching the type word as written, not lowered
has_subtitles_exact(line) == \E k \in 1..Len(line) : line[k] = "subtitles"

\* 'subtitles' in line.lower() (line 118)
has_subtitles(line) == \E k \in 1..Len(line) : lower(line[k]) = "subtitles"

\* lines 110-114 storing the number before the mkvmerge id is extracted
track_number_line_eager(current_track, line) ==
  LET parts == split(line, "(")
      head  == split(parts[1], ":")
  IN  IF Len(head) < 2 THEN [ok |-> FALSE, current_track |-> current_track]
      ELSE
        LET numbered == Put(current_track, "number", strip(head[2]))
        IN  IF Len(parts) < 2 \/ Len(split(parts[2], ":")) < 2
              THEN [ok |-> FALSE, current_track |-> numbered]
              ELSE [ok |-> TRUE,
                    current_track |->
                      Put(numbered, "mkvmerge_id",
                          strip(split(split(parts[2], ":")[2], ")")[1]))]

\* lines 106-117: ok is FALSE when the extraction raised (IndexError, caught at
\* line 116, before either key is stored); current_track is the dict after it
track_number_line(current_track, line) ==
  LET parts == split(line, "(")
      head  == split(parts[1], ":")
  IN  IF Len(head) < 2 \/ Len(parts) < 2 \/ Len(split(parts[2], ":")) < 2
        THEN [ok |-> FALSE, current_track |-> current_track]
        ELSE
          LET track_num   == strip(head[2])
              mkvmerge_id == strip(split(split(parts[2], ":")[2], ")")[1])
          IN  [ok |-> TRUE,
               current_track |->
                 Put(Put(current_track, "number", track_num), "mkvmerge_id", mkvmerge_id)]

\* lines 95-96
ParserStart ==
  [none |-> TRUE, current_track |-> EmptyDict, track_mapping |-> EmptyDict,
   errors |-> 0, raised |-> FALSE]

\* lines 119-123; the KeyError of line 121 is uncaught
subtitles_line(st) ==
  IF "number" \in DOMAIN st.current_track
    THEN IF "mkvmerge_id" \in DOMAIN st.current_track
           THEN [st EXCEPT !.track_mapping =
                             Put(@, st.current_track["number"],
                                 st.current_track["mkvmerge_id"]),
                           !.none = TRUE, !.current_track = EmptyDict]
           ELSE [st EXCEPT !.raised = TRUE]
    ELSE [st EXCEPT !.none = TRUE, !.current_track = EmptyDict]

\* lines 99-125 with the test of line 104 dropped
parse_line_always(st, raw) ==
  LET line == strip(raw)
  IN  IF has_new_track(line)
        THEN [st EXCEPT !.none = FALSE, !.current_track = EmptyDict]
      ELSE IF has_track_number(line)
        THEN LET r == track_number_line(st.current_track, line)
             IN  IF r.ok THEN [st EXCEPT !.none = FALSE, !.current_track = r.current_track]
                         ELSE [st EXCEPT !.none = FALSE, !.current_track = r.current_track,
                                         !.errors = @ + 1]
      ELSE IF has_track_type(line) /\ has_subtitles(line) THEN subtitles_line(st)
      ELSE IF has_track_type(line)
        THEN [st EXCEPT !.none = TRUE, !.current_track = EmptyDict]
      ELSE st

\* lines 99-125: the body of the loop for one line
parse_line(st, raw) ==
  LET line == strip(raw)
  IN  IF has_new_track(line)
        THEN [st EXCEPT !.none = FALSE, !.current_track = EmptyDict]
      ELSE IF ~st.none
        THEN IF has_track_number(line)
               THEN LET r == track_number_line(st.current_track, line)
                    IN  IF r.ok THEN [st EXCEPT !.current_track = r.current_track]
                                ELSE [st EXCEPT !.current_track = r.current_track,
                                                !.errors = @ + 1]
             ELSE IF has_track_type(line) /\ has_subtitles(line) THEN subtitles_line(st)
             ELSE IF has_track_type(line)
               THEN [st EXCEPT !.none = TRUE, !.current_track = EmptyDict]
             ELSE st
      ELSE st

\* lines 93-128 on a whole dump: the parser after the last line (the loop ends
\* at the first line on which an exception escapes)
RECURSIVE parse_from(_, _, _)
parse_from(st, lines, k) ==
  IF k > Len(lines) \/ st.raised THEN st
  ELSE parse_from(parse_line(st, lines[k]), lines, k + 1)

parse_mkvinfo_output(lines) == parse_from(ParserStart, lines, 1)

(***************************************************************************)
(* Element counts as the reader writes them.                               *)
(***************************************************************************)
S0 == <<"0">>
S50 == <<"5", "0">>
S399 == <<"3", "9", "9">>
S400 == <<"4", "0", "0">>
S500 == <<"5", "0", "0">>
S1000 == <<"1", "0", "0", "0">>
S2000 == <<"2", "0", "0", "0">>
S3000 == <<"3", "0", "0", "0">>
SNeg == <<"-", "1">>
SAbc == <<"a", "b", "c">>
SEmpty == <<>>

(***************************************************************************)
(* The lines of a dump.                                                    *)
(***************************************************************************)
Id1 == <<"1">>
Id2 == <<"2">>
Id3 == <<"3">>

\* "|  + Track number: r (track ID for mkvmerge & mkvextract: e)"
NumLine(r, e) ==
  <<"|  + ", "Track number", ":", " ">> \o r \o
  <<" ", "(", "track ID for mkvmerge & mkvextract", ":", " ">> \o e \o <<")">>

\* "| + Track"
LNewTrack == <<"| + ", "Track">>
\* "|  + Track number: 1": no parenthesised editor index
LNumNoParen == <<"|  + ", "Track number", ":", " ", "1">>
\* "| + Track number: 3 (track ID for mkvmerge & mkvextract: 2)": holds '| + Track'
LNumShallow == <<"| + ", "Track number", ":", " ", "3", " ", "(",
                 "track ID for mkvmerge & mkvextract", ":", " ", "2", ")">>
LTypeSubs == <<"|  + ", "Track type", ":", " ", "subtitles">>
LTypeSubsUpper == <<"|  + ", "Track type", ":", " ", "SUBTITLES">>
LTypeVideo == <<"|  + ", "Track type", ":", " ", "video">>
\* "|  + Name: English subtitles"
LName == <<"|  + ", "Name", ":", " ", "English", " ", "subtitles">>

\* the track-number lines on which the extraction succeeds, with the reader
\* index r and the editor index e written in them
NumLines ==
  {[line |-> NumLine(Id3, Id2), r |-> Id3, e |-> Id2],
   [line |-> NumLine(Id2, Id1), r |-> Id2, e |-> Id1],
   [line |-> NumLine(Id3, <<>>), r |-> Id3, e |-> <<>>]}

\* the lines the dumps of the reconciler on its own are made of
DumpLines ==
  {NumLine(Id3, Id2), NumLine(Id3, <<>>),
   LNewTrack, LNumNoParen, LTypeSubs, LTypeSubsUpper, LTypeVideo}

(***************************************************************************)
(* The reader's output: json.loads(mediainfo_result.stdout) (line 177).    *)
(***************************************************************************)
MaxTracks == 2
MaxDirEntries == 2

\* a track dict of media.track: the keys present are the DOMAIN
RawTrack(type, fields) == ("@type" :> type) @@ fields

\* Text, ID 3, en, Count_of_elements 50
RT_en50 ==
  RawTrack("Text", ("ID" :> Id3) @@ ("Language" :> "en") @@ ("Count_of_elements" :> S50))
\* Text, ID 2, en, Count_of_elements 1000, Forced Yes on disk
RT_en1000 ==
  RawTrack("Text", ("ID" :> Id2) @@ ("Language" :> "en") @@ ("Forced" :> "Yes") @@
                   ("Count_of_elements" :> S1000))
\* Text, ID 3, de, Count_of_elements 0, Count of elements 500
RT_de500 ==
  RawTrack("Text", ("ID" :> Id3) @@ ("Language" :> "de") @@
                   ("Count_of_elements" :> S0) @@ ("Count of elements" :> S500))
\* Text, ID 2, de, ElementCount 3000
RT_de3000 ==
  RawTrack("Text", ("ID" :> Id2) @@ ("Language" :> "de") @@ ("ElementCount" :> S3000))
\* Text, ID 3, en, no element count under any name
RT_nocount == RawTrack("Text", ("ID" :> Id3) @@ ("Language" :> "en"))
\* Text, ID 2, en, Count_of_elements abc
RT_abc ==
  RawTrack("Text", ("ID" :> Id2) @@ ("Language" :> "en") @@ ("Count_of_elements" :> SAbc))
\* Text, no ID, no language, Count_of_elements 50
RT_noid == RawTrack("Text", ("Count_of_elements" :> S50))
\* Audio, ID 1
RT_audio == RawTrack("Audio", ("ID" :> Id1) @@ ("Language" :> "en"))

RawTracks ==
  {RT_en50, RT_en1000, RT_de500, RT_de3000, RT_nocount, RT_abc, RT_noid, RT_audio}

\* what mediainfo may write: text that is no JSON, JSON without media.track,
\* or a media.track list
ReaderOutputs ==
  {[kind |-> "notjson", tracks |-> <<>>], [kind |-> "nomedia", tracks |-> <<>>]} \cup
  {[kind |-> "tracks", tracks |-> t] :
     t \in UNION {[1..n -> RawTracks] : n \in 0..MaxTracks}}

(***************************************************************************)
(* The dumper's output: mkvinfo_result.stdout, split into lines, with the  *)
(* mapping written in it.                                                  *)
(***************************************************************************)
SX == <<"x">>

DumpCases ==
  {[lines   |-> <<LNewTrack, NumLine(Id3, Id2), LTypeSubs,
                  LNewTrack, NumLine(Id2, Id1), LTypeSubsUpper>>,
    mapping |-> (Id3 :> Id2) @@ (Id2 :> Id1)],
   [lines   |-> <<LNewTrack, NumLine(Id1, <<"0">>), LTypeVideo,
                  LNewTrack, NumLine(Id3, Id2), LName, LTypeSubs>>,
    mapping |-> (Id3 :> Id2)],
   [lines   |-> <<LNewTrack, NumLine(Id3, <<>>), LTypeSubs,
                  LNewTrack, NumLine(Id2, SX), LTypeSubs>>,
    mapping |-> (Id3 :> <<>>) @@ (Id2 :> SX)],
   [lines   |-> <<LNumShallow, LTypeSubs, LNewTrack, LNumNoParen, LTypeSubs>>,
    mapping |-> EmptyDict]}

\* line 178 on each text the dumper prints: parse_mkvinfo_output(stdout), worked
\* out once per text
parsed_mkvinfo == [lines \in {d.lines : d \in DumpCases} |-> parse_mkvinfo_output(lines)]

\* the integer written as an identifier
IdNum == (<<"0">> :> 0) @@ (Id1 :> 1) @@ (Id2 :> 2) @@ (Id3 :> 3)

(***************************************************************************)
(* analyze_subtitle_tracks (lines 65-91).                                  *)
(***************************************************************************)
\* lines 77-83 asking for the three names in the opposite order
element_count_of_reversed(track) ==
  LET first  == Get(track, "ElementCount", S0)
      second == IF first = S0 THEN Get(track, "Count of elements", S0) ELSE first
  IN  IF second = S0 THEN Get(track, "Count_of_elements", S0) ELSE second

\* lines 77-83
element_count_of(track) ==
  LET first  == Get(track, "Count_of_elements", S0)
      second == IF first = S0 THEN Get(track, "Count of elements", S0) ELSE first
  IN  IF second = S0 THEN Get(track, "ElementCount", S0) ELSE second

\* lines 71-83
subtitle_track_of(track) ==
  [id            |-> Get(track, "ID", <<"unknown">>),
   format        |-> Get(track, "Format", "unknown"),
   language      |-> Get(track, "Language", "unknown"),
   forced        |-> Get(track, "Forced", "No"),
   default       |-> Get(track, "Default", "No"),
   element_count |-> element_count_of(track)]

\* lines 69-85
RECURSIVE subtitle_info_of(_)
subtitle_info_of(tracks) ==
  IF tracks = <<>> THEN <<>>
  ELSE IF Head(tracks)["@type"] = "Text"
    THEN <<subtitle_track_of(Head(tracks))>> \o subtitle_info_of(Tail(tracks))
  ELSE subtitle_info_of(Tail(tracks))

\* lines 65-91: raised when media.track or a track's '@type' is missing
\* (KeyError at lines 69-70)
analyze_subtitle_tracks(mediainfo_output) ==
  IF mediainfo_output.kind # "tracks"
     \/ \E k \in 1..Len(mediainfo_output.tracks) :
          "@type" \notin DOMAIN mediainfo_output.tracks[k]
    THEN [raised |-> TRUE, subtitle_info |-> <<>>]
    ELSE [raised |-> FALSE,
          subtitle_info |-> classify_from(subtitle_info_of(mediainfo_output.tracks), 1)]

\* line 185 on each output the reader gives: analyze_subtitle_tracks(data),
\* worked out once per output
analyzed_mediainfo == [out \in ReaderOutputs |-> analyze_subtitle_tracks(out)]

(***************************************************************************)
(* analyze_and_fix_mkv_files (lines 148-262) and set_forced_flag           *)
(* (lines 130-146).                                                        *)
(***************************************************************************)
NameA == <<"a", ".mkv">>
NameB == <<"B", ".MKV">>
NameC == <<"c", ".txt">>
DirNames == {NameA, NameB, NameC}

\* os.listdir: the entries of the folder, in any order
Listings ==
  {l \in UNION {[1..n -> DirNames] : n \in 0..MaxDirEntries} :
     \A i, j \in 1..Len(l) : i # j => l[i] # l[j]}

\* f.lower().endswith('.mkv') (line 155)
is_mkv(f) ==
  f # <<>> /\ (IF f[Len(f)] = ".MKV" THEN ".mkv" ELSE f[Len(f)]) = ".mkv"

NoReaderResult ==
  [launched |-> FALSE, returncode |-> 0, stdout |-> [kind |-> "none", tracks |-> <<>>]]
NoDumperResult == [launched |-> FALSE, returncode |-> 0, stdout |-> <<>>]

\* the state between two files: nothing of a file is kept
FileIdle ==
  /\ mediainfo_result = NoReaderResult
  /\ mkvinfo_result = NoDumperResult
  /\ track_mapping = EmptyDict
  /\ subtitle_tracks = <<>>
  /\ tracks_to_force = <<>>
  /\ apply_i = 1
  /\ editor_calls = <<>>
  /\ log_errors = {}

BatchIdle ==
  /\ pc = "idle"
  /\ mkv_files = <<>>
  /\ file_i = 0
  /\ file_status = <<>>
  /\ FileIdle

Init ==
  /\ pc = "start"
  /\ mkv_files = <<>>
  /\ file_i = 0
  /\ file_status = <<>>
  /\ FileIdle
  /\ cl_tracks = <<>>
  /\ cl_i = 1
  /\ pdump = <<>>
  /\ parser = ParserStart

\* a logging.error record: the line that writes it and the position in
\* subtitle_tracks of the track it is about (0: the file)
LogError(line, track) == [at |-> line, track |-> track]

\* lines 149-161: the folder is missing (ValueError, caught at line 271), or
\* it is listed and filtered
ListFiles ==
  /\ pc = "start"
  /\ \/ /\ pc' = "finished"
        /\ log_errors' = {LogError(272, 0)}
        /\ UNCHANGED <<mkv_files, file_i, file_status>>
     \/ \E listing \in Listings :
          /\ mkv_files' = SelectSeq(listing, is_mkv)
          /\ file_status' = [k \in 1..Len(mkv_files') |-> "pending"]
          /\ IF mkv_files' = <<>>
               THEN pc' = "finished" /\ file_i' = 0
               ELSE pc' = "scan" /\ file_i' = 1
          /\ UNCHANGED log_errors
  /\ UNCHANGED <<mediainfo_result, mkvinfo_result, track_mapping, subtitle_tracks,
                 tracks_to_force, apply_i, editor_calls>>
  /\ UNCHANGED <<clvars, pvars>>

\* line 164
full_path == mkv_files[file_i]

\* line 176 with "or" in place of "and"
scan_ok_either(mediainfo_rc, mkvinfo_rc) == mediainfo_rc = 0 \/ mkvinfo_rc = 0

\* line 176 with its test dropped
scan_ok_always(mediainfo_rc, mkvinfo_rc) == TRUE

\* line 176
scan_ok(mediainfo_rc, mkvinfo_rc) == mediainfo_rc = 0 /\ mkvinfo_rc = 0

\* the end of the try body for the current file
EndFile(status) ==
  /\ file_status' = [file_status EXCEPT ![file_i] = status]
  /\ pc' = "next"

\* lines 169-176: the reader then the dumper run on full_path; either may fail
\* to launch (an exception, caught at line 261), and each returns an exit
\* status and its output
ScanFile ==
  /\ pc = "scan"
  /\ \/ /\ mediainfo_result' = NoReaderResult
        /\ mkvinfo_result' = NoDumperResult
        /\ log_errors' = log_errors \cup {LogError(262, 0)}
        /\ EndFile("errored")
     \/ \E rrc \in {0, 1}, rout \in ReaderOutputs :
          /\ mediainfo_result' = [launched |-> TRUE, returncode |-> rrc, stdout |-> rout]
          /\ \/ /\ mkvinfo_result' = NoDumperResult
                /\ log_errors' = log_errors \cup {LogError(262, 0)}
                /\ EndFile("errored")
             \/ \E drc \in {0, 1}, d \in DumpCases :
                  /\ mkvinfo_result' =
                       [launched |-> TRUE, returncode |-> drc, stdout |-> d.lines]
                  /\ UNCHANGED log_errors
                  /\ IF scan_ok(rrc, drc)
                       THEN pc' = "parse" /\ UNCHANGED file_status
                       ELSE EndFile("skipped")
  /\ UNCHANGED <<mkv_files, file_i, track_mapping, subtitle_tracks, tracks_to_force,
                 apply_i, editor_calls>>
  /\ UNCHANGED <<clvars, pvars>>

\* lines 177-178: json.loads, then parse_mkvinfo_output
ParseOutputs ==
  /\ pc = "parse"
  /\ IF mediainfo_result.stdout.kind = "notjson"
       THEN /\ log_errors' = log_errors \cup {LogError(262, 0)}
            /\ EndFile("errored")
            /\ UNCHANGED track_mapping
       ELSE LET st == parsed_mkvinfo[mkvinfo_result.stdout]
            IN  /\ track_mapping' = st.track_mapping
                /\ log_errors' =
                     log_errors \cup
                     (IF st.errors > 0 THEN {LogError(117, 0)} ELSE {}) \cup
                     (IF st.raised THEN {LogError(262, 0)} ELSE {})
                /\ IF st.raised THEN EndFile("errored")
                                ELSE pc' = "classify" /\ UNCHANGED file_status
  /\ UNCHANGED <<mkv_files, file_i, mediainfo_result, mkvinfo_result, subtitle_tracks,
                 tracks_to_force, apply_i, editor_calls>>
  /\ UNCHANGED <<clvars, pvars>>

\* lines 205-218 handing every track on to the apply loop
tracks_to_force_all(tracks) == [k \in 1..Len(tracks) |-> k]

\* lines 202-218: the positions of the tracks with should_be_forced, in order
RECURSIVE tracks_to_force_from(_, _)
tracks_to_force_from(tracks, k) ==
  IF k > Len(tracks) THEN <<>>
  ELSE (IF tracks[k]["should_be_forced"] THEN <<k>> ELSE <<>>)
       \o tracks_to_force_from(tracks, k + 1)

tracks_to_force_of(tracks) == tracks_to_force_from(tracks, 1)

\* lines 185-226: classification, then the list of the tracks to modify
ClassifyTracks ==
  /\ pc = "classify"
  /\ LET r == analyzed_mediainfo[mediainfo_result.stdout]
     IN  IF r.raised
           THEN /\ log_errors' = log_errors \cup {LogError(262, 0)}
                /\ EndFile("errored")
                /\ UNCHANGED <<subtitle_tracks, tracks_to_force>>
           ELSE /\ subtitle_tracks' = r.subtitle_info
                /\ tracks_to_force' =
                     IF r.subtitle_info = <<>> THEN <<>>
                     ELSE tracks_to_force_of(r.subtitle_info)
                /\ UNCHANGED log_errors
                /\ IF r.subtitle_info = <<>> THEN EndFile("done")
                   ELSE /\ UNCHANGED file_status
                        /\ pc' = IF tracks_to_force' = <<>> THEN "summary" ELSE "apply"
  /\ UNCHANGED <<mkv_files, file_i, mediainfo_result, mkvinfo_result, track_mapping,
                 apply_i, editor_calls>>
  /\ UNCHANGED <<clvars, pvars>>

\* line 229 guessing the reader index when the map has no entry
mapping_get_guess(mapping, id) ==
  IF id \in DOMAIN mapping THEN [found |-> TRUE, value |-> mapping[id]]
  ELSE [found |-> TRUE, value |-> id]

\* line 229: track_mapping.get(track['id']); found is FALSE for None
mapping_get(mapping, id) ==
  IF id \in DOMAIN mapping THEN [found |-> TRUE, value |-> mapping[id]]
  ELSE [found |-> FALSE, value |-> <<>>]

\* line 230: the truth value of mkvmerge_id
truthy(mkvmerge_id) == mkvmerge_id.found /\ mkvmerge_id.value # <<>>

\* line 134 without the offset
corrected_track_id_raw(track_id) == int(track_id)

\* line 134
corrected_track_id(track_id) == int(track_id) + 1

\* line 136 for the call of line 236, which leaves forced at its default
flag_forced == 1

\* what one run of mkvpropedit may do: exit 0 with nothing on stderr (ok),
\* exit 0 with text on stderr (warned), exit nonzero, fail to launch
EditorOutcomes == {"ok", "warned", "failed", "oserror"}

\* line 143 answering from stderr as well as from the exit status
exit_zero_quiet(outcome) == outcome = "ok"

\* line 143: result.returncode == 0
exit_zero(outcome) == outcome \in {"ok", "warned"}

\* lines 228-245, one iteration: the lookup, and set_forced_flag (lines
\* 130-146) when the lookup gives an identifier
ApplyTrack ==
  /\ pc = "apply"
  /\ apply_i <= Len(tracks_to_force)
  /\ LET k == tracks_to_force[apply_i]
         track == subtitle_tracks[k]
         mkvmerge_id == mapping_get(track_mapping, track["id"])
         Finish(success, errs) ==
           /\ subtitle_tracks' = [subtitle_tracks EXCEPT ![k] = Put(@, "modified", success)]
           /\ log_errors' = log_errors \cup errs
     IN  IF truthy(mkvmerge_id)
           THEN IF ~IntParses(mkvmerge_id.value)
                  THEN /\ Finish(FALSE, {LogError(145, k), LogError(242, k)})
                       /\ UNCHANGED editor_calls
                  ELSE \E outcome \in EditorOutcomes :
                         /\ editor_calls' =
                              Append(editor_calls,
                                     [file    |-> full_path,
                                      track   |-> corrected_track_id(mkvmerge_id.value),
                                      flag    |-> flag_forced,
                                      of      |-> k,
                                      outcome |-> outcome])
                         /\ Finish(exit_zero(outcome),
                                   CASE outcome \in {"ok", "warned"} -> {}
                                     [] outcome = "failed" ->
                                          {LogError(141, k), LogError(242, k)}
                                     [] outcome = "oserror" ->
                                          {LogError(145, k), LogError(242, k)})
           ELSE /\ Finish(FALSE, {LogError(244, k)})
                /\ UNCHANGED editor_calls
  /\ apply_i' = apply_i + 1
  /\ pc' = IF apply_i' > Len(tracks_to_force) THEN "summary" ELSE "apply"
  /\ UNCHANGED <<mkv_files, file_i, file_status, mediainfo_result, mkvinfo_result,
                 track_mapping, tracks_to_force>>
  /\ UNCHANGED <<clvars, pvars>>

\* lines 249-256: the final report of the file
Summary ==
  /\ pc = "summary"
  /\ EndFile("done")
  /\ UNCHANGED <<mkv_files, file_i, filevars>>
  /\ UNCHANGED <<clvars, pvars>>

\* line 163 handing the same file to the loop body again
NextFile_again ==
  /\ pc = "next"
  /\ file_i' = file_i
  /\ pc' = "scan"
  /\ mediainfo_result' = NoReaderResult
  /\ mkvinfo_result' = NoDumperResult
  /\ track_mapping' = EmptyDict
  /\ subtitle_tracks' = <<>>
  /\ tracks_to_force' = <<>>
  /\ apply_i' = 1
  /\ editor_calls' = <<>>
  /\ log_errors' = {}
  /\ UNCHANGED <<mkv_files, file_status>>
  /\ UNCHANGED <<clvars, pvars>>

\* line 163: the next file, with nothing kept of the last one, or the end of
\* the loop
NextFile ==
  /\ pc = "next"
  /\ IF file_i < Len(mkv_files)
       THEN file_i' = file_i + 1 /\ pc' = "scan"
       ELSE file_i' = file_i /\ pc' = "finished"
  /\ mediainfo_result' = NoReaderResult
  /\ mkvinfo_result' = NoDumperResult
  /\ track_mapping' = EmptyDict
  /\ subtitle_tracks' = <<>>
  /\ tracks_to_force' = <<>>
  /\ apply_i' = 1
  /\ editor_calls' = <<>>
  /\ log_errors' = {}
  /\ UNCHANGED <<mkv_files, file_status>>
  /\ UNCHANGED <<clvars, pvars>>

Next ==
  \/ ListFiles
  \/ ScanFile
  \/ ParseOutputs
  \/ ClassifyTracks
  \/ ApplyTrack
  \/ Summary
  \/ NextFile

Spec == Init /\ [][Next]_vars

\* the script is one thread of control and subprocess.run (lines 138, 169,
\* 173) blocks until the tool has ended: a statement that can run does run
FairSpec == Spec /\ WF_vars(Next)

(***************************************************************************)
(* The reconciler on its own: every dump of at most MaxLines lines, read   *)
(* line by line as the loop of line 98 does.                               *)
(***************************************************************************)
PInit ==
  /\ pdump = <<>>
  /\ parser = ParserStart
  /\ cl_tracks = <<>>
  /\ cl_i = 1
  /\ BatchIdle

\* one iteration of the loop of line 98 on the next line of the dump
ParseStep ==
  /\ Len(pdump) < MaxLines
  /\ ~parser.raised
  /\ \E line \in DumpLines :
       /\ pdump' = Append(pdump, line)
       /\ parser' = parse_line(parser, line)
  /\ UNCHANGED <<clvars, bvars>>

PNext == ParseStep

SpecParse == PInit /\ [][PNext]_vars

(***************************************************************************)
(* The classifier on its own: subtitle_info is any list of at most         *)
(* MaxSiblings tracks, and each step is one iteration of lines 88-89.      *)
(***************************************************************************)
ClCounts == {S0, S399, S400, S500, S2000, S3000, SNeg, SAbc}
ClLanguages == {"en", "de"}

ClTrack(lang, cnt) ==
  [id |-> <<"1">>, format |-> "unknown", language |-> lang,
   forced |-> "No", default |-> "No", element_count |-> cnt]

ClTracks == {ClTrack(l, c) : l \in ClLanguages, c \in ClCounts}

ClInit ==
  /\ cl_tracks \in UNION {[1..n -> ClTracks] : n \in 1..MaxSiblings}
  /\ cl_i = 1
  /\ pdump = <<>>
  /\ parser = ParserStart
  /\ BatchIdle

\* lines 88-89, one iteration
ClassifyStep ==
  /\ cl_i <= Len(cl_tracks)
  /\ LET r == should_be_forced(cl_tracks[cl_i], cl_tracks)
     IN  cl_tracks' = [cl_tracks EXCEPT ![cl_i] = Put(r.track, "should_be_forced", r.ret)]
  /\ cl_i' = cl_i + 1
  /\ UNCHANGED <<pvars, bvars>>

ClNext == ClassifyStep

SpecClassify == ClInit /\ [][ClNext]_vars

(***************************************************************************)
(* The element count on its own: a reader output of one Text track whose   *)
(* three count fields are each absent or hold any of CountValues, and the  *)
(* loop of lines 69-85 building the track's record.                        *)
(***************************************************************************)
CountValues == {S0, S50, S500, SAbc, SEmpty}

\* the three names the count may be written under, in the order of lines 77,
\* 81 and 83
CountNames == <<"Count_of_elements", "Count of elements", "ElementCount">>

CountTracks ==
  {RawTrack("Text", ("ID" :> Id3) @@ ("Language" :> "en") @@ fields) :
     fields \in UNION {[names -> CountValues] :
                         names \in SUBSET {CountNames[i] : i \in 1..3}}}

CountInit ==
  /\ mediainfo_result \in
       {[launched |-> TRUE, returncode |-> 0,
         stdout |-> [kind |-> "tracks", tracks |-> <<t>>]] : t \in CountTracks}
  /\ mkvinfo_result = NoDumperResult
  /\ track_mapping = EmptyDict
  /\ subtitle_tracks = <<>>
  /\ tracks_to_force = <<>>
  /\ apply_i = 1
  /\ editor_calls = <<>>
  /\ log_errors = {}
  /\ pc = "idle"
  /\ mkv_files = <<>>
  /\ file_i = 0
  /\ file_status = <<>>
  /\ cl_tracks = <<>>
  /\ cl_i = 1
  /\ pdump = <<>>
  /\ parser = ParserStart

\* lines 69-85, one iteration on a Text track
BuildTrack ==
  /\ Len(subtitle_tracks) < Len(mediainfo_result.stdout.tracks)
  /\ LET track == mediainfo_result.stdout.tracks[Len(subtitle_tracks) + 1]
     IN  /\ track["@type"] = "Text"
         /\ subtitle_tracks' = Append(subtitle_tracks, subtitle_track_of(track))
  /\ UNCHANGED <<pc, mkv_files, file_i, file_status, mediainfo_result, mkvinfo_result,
                 track_mapping, tracks_to_force, apply_i, editor_calls, log_errors>>
  /\ UNCHANGED <<clvars, pvars>>

CountNext == BuildTrack

SpecCount == CountInit /\ [][CountNext]_vars

(***************************************************************************)
(* Properties of the element count (SpecCount).                            *)
(***************************************************************************)
\* the places in CountNames of the fields of raw that are present with a value
\* other than "0"
NonZeroFields(raw) ==
  {i \in 1..3 : CountNames[i] \in DOMAIN raw /\ raw[CountNames[i]] # <<"0">>}

\* C12: the element count of a subtitle track is the value of the first of
\* Count_of_elements, "Count of elements", ElementCount, in that order, that is
\* present with a value other than "0", and it is "0" when all three are
\* absent or "0".
C12_FirstNonZeroCount ==
  \A k \in 1..Len(subtitle_tracks) :
    LET raw == mediainfo_result.stdout.tracks[k]
        nz  == NonZeroFields(raw)
    IN  IF nz = {}
          THEN subtitle_tracks[k]["element_count"] = <<"0">>
          ELSE \E i \in nz :
                 /\ \A j \in nz : i <= j
                 /\ subtitle_tracks[k]["element_count"] = raw[CountNames[i]]

\* C12 witness: Count_of_elements is "0", "Count of elements" is 50 and
\* ElementCount is 500, and the count taken is 50.
C12_Witness ==
  /\ Len(subtitle_tracks) = 1
  /\ LET raw == mediainfo_result.stdout.tracks[1]
     IN  /\ DOMAIN raw = {"@type", "ID", "Language",
                          "Count_of_elements", "Count of elements", "ElementCount"}
         /\ raw["Count_of_elements"] = <<"0">>
         /\ raw["Count of elements"] = <<"5", "0">>
         /\ raw["ElementCount"] = <<"5", "0", "0">>
  /\ subtitle_tracks[1]["element_count"] = <<"5", "0">>

(***************************************************************************)
(* Properties of the classifier (SpecClassify).                            *)
(***************************************************************************)
\* the classified tracks: those the loop of line 88 has passed
ClDone == 1..(cl_i - 1)

ClCount(k) == cl_tracks[k]["element_count"]

\* the positions of the tracks sharing the language of track k (k included)
ClGroup(k) == {j \in 1..Len(cl_tracks) : cl_tracks[j]["language"] = cl_tracks[k]["language"]}

ClGroupNumeric(k) == \A j \in ClGroup(k) : IntParses(ClCount(j))

\* the largest element count of the language group of track k
ClGroupMax(k) ==
  CHOOSE m \in {int(ClCount(j)) : j \in ClGroup(k)} :
    \A j \in ClGroup(k) : int(ClCount(j)) <= m

\* C1: for a track whose language group holds only integer counts >= 0,
\* should_be_forced is true iff element_count < 400 or percentage < 20, where
\* percentage is 100 when the group's maximum is 0 and element_count / max * 100
\* otherwise; the percentage stored is that value, and it is 100 for a track
\* alone in its group.
C1_ForcedIffSparse ==
  \A k \in ClDone :
    (ClGroupNumeric(k) /\ \A j \in ClGroup(k) : int(ClCount(j)) >= 0) =>
      LET ec == int(ClCount(k))
          mx == ClGroupMax(k)
          t  == cl_tracks[k]
      IN  /\ t["should_be_forced"] =
               (ec < 400 \/ (mx # 0 /\ 100 * ec < 20 * mx))
          /\ (ec >= 400 /\ (mx = 0 \/ 100 * ec >= 20 * mx)) => ~t["should_be_forced"]
          /\ "percentage" \in DOMAIN t
          /\ IF mx = 0 THEN t["percentage"].num = 100 * t["percentage"].den
                       ELSE t["percentage"].num * mx = 100 * ec * t["percentage"].den
          /\ Cardinality(ClGroup(k)) = 1 => t["percentage"].num = 100 * t["percentage"].den

\* C1 witness: a track of 400 or more elements forced through the percentage
\* branch beside a classified sibling of its group that is not forced.
C1_Witness ==
  \E k, j \in ClDone :
    /\ j \in ClGroup(k) /\ ClGroupNumeric(k)
    /\ int(ClCount(k)) >= 400 /\ cl_tracks[k]["should_be_forced"]
    /\ ~cl_tracks[j]["should_be_forced"]

\* C10 as stated: a track with a numeric element_count < 400 is forced whatever
\* the counts of the other tracks, non-numeric ones included.
C10_Original ==
  \A k \in ClDone :
    (IntParses(ClCount(k)) /\ int(ClCount(k)) < 400) => cl_tracks[k]["should_be_forced"]

\* C10 amended: a track with a numeric element_count < 400 is forced, whatever
\* its percentage, when every track of its own language has a numeric count;
\* the counts of the other languages may be anything.
C10_SparseForced ==
  \A k \in ClDone :
    (IntParses(ClCount(k)) /\ int(ClCount(k)) < 400 /\ ClGroupNumeric(k)) =>
      cl_tracks[k]["should_be_forced"]

\* C10 witness: a forced track under 400 elements whose percentage is 100, with
\* a non-numeric track of another language in the same file.
C10_Witness ==
  \E k \in ClDone :
    /\ IntParses(ClCount(k)) /\ int(ClCount(k)) < 400 /\ ClGroupNumeric(k)
    /\ cl_tracks[k]["should_be_forced"]
    /\ "percentage" \in DOMAIN cl_tracks[k]
    /\ ~PctLess(cl_tracks[k]["percentage"], 20)
    /\ \E j \in 1..Len(cl_tracks) : j \notin ClGroup(k) /\ ~IntParses(ClCount(j))

(***************************************************************************)
(* Properties of the reconciler (SpecParse).  The lines are told apart by  *)
(* what is written in them.                                                *)
(***************************************************************************)
\* a line opening a track record: it holds "| + Track"
IsNewTrackLine(l) == l = LNewTrack

\* a "Track type:" line, and one declaring subtitles in any letter case
IsTypeLine(l) == l \in {LTypeSubs, LTypeSubsUpper, LTypeVideo}
IsSubsTypeLine(l) == l \in {LTypeSubs, LTypeSubsUpper}

\* a track-number line carrying "r (...: e)"
WellFormed(l, r, e) == \E n \in NumLines : n.line = l /\ n.r = r /\ n.e = e
IsWellFormed(l) == \E n \in NumLines : n.line = l

\* a track-number line on which the extraction of lines 110-112 fails
IsMalformed(l) == l = LNumNoParen

\* line k of the dump lies in an open track record: a new-track line precedes
\* it and no type line has closed the record since
OpenAt(k) ==
  \E j \in 1..(k - 1) :
    /\ IsNewTrackLine(pdump[j])
    /\ \A m \in (j + 1)..(k - 1) : ~IsTypeLine(pdump[m])

PLast == Len(pdump)

\* every entry of the mapping comes from a well-formed track-number line and
\* a subtitles type line of the same track record
EntriesJustified ==
  \A key \in DOMAIN parser.track_mapping :
    \E k \in 1..PLast : \E j \in (k + 1)..PLast :
      /\ WellFormed(pdump[k], key, parser.track_mapping[key])
      /\ OpenAt(k)
      /\ IsSubsTypeLine(pdump[j])
      /\ \A m \in (k + 1)..(j - 1) : ~IsNewTrackLine(pdump[m]) /\ ~IsTypeLine(pdump[m])

\* C6 as stated: whenever a well-formed track-number line is followed
\* immediately by a "Track type: subtitles" line, the entry reader index ->
\* editor index is committed.
C6_Original ==
  \A r, e \in {Id1, Id2, Id3, <<>>} :
    (PLast >= 2 /\ WellFormed(pdump[PLast - 1], r, e) /\ IsSubsTypeLine(pdump[PLast])) =>
      (r \in DOMAIN parser.track_mapping /\ parser.track_mapping[r] = e)

\* C6 amended, the state part: inside an open track record, a well-formed
\* track-number line followed immediately by a "Track type:" line declaring
\* subtitles in any letter case has its entry committed; and every entry of
\* the result has its number line and a subtitles type line in one record.
C6_StateOk ==
  /\ \A r, e \in {Id1, Id2, Id3, <<>>} :
       (/\ PLast >= 2
        /\ WellFormed(pdump[PLast - 1], r, e)
        /\ OpenAt(PLast - 1)
        /\ IsSubsTypeLine(pdump[PLast])) =>
         (r \in DOMAIN parser.track_mapping /\ parser.track_mapping[r] = e)
  /\ EntriesJustified

\* C6 amended, the step part: a "Track type:" line of any other type commits
\* nothing.
C6_StepOk ==
  (PLast' = PLast + 1 /\ IsTypeLine(pdump'[PLast']) /\ ~IsSubsTypeLine(pdump'[PLast'])) =>
    parser'.track_mapping = parser.track_mapping

\* C6 (amended): in an open track record a well-formed track-number line
\* followed immediately by a subtitles type line commits reader index ->
\* editor index; followed by any other type line it commits nothing; an entry
\* is in the result only if its number line and a subtitles type line were seen
\* in the same record.
C6_CommitsInOpenRecord == [](C6_StateOk) /\ [][C6_StepOk]_vars

\* C6 witness: "| + Track", "Track number: 3 (...: 2)", "Track type: SUBTITLES"
\* has just been read and 3 -> 2 is committed.
C6_Witness ==
  /\ PLast >= 3
  /\ pdump[PLast - 2] = LNewTrack
  /\ pdump[PLast - 1] = NumLine(Id3, Id2)
  /\ pdump[PLast] = LTypeSubsUpper
  /\ Id3 \in DOMAIN parser.track_mapping
  /\ parser.track_mapping[Id3] = Id2

\* the lines of the record open at the end of the dump: those after its
\* new-track line
RecordStart ==
  CHOOSE j \in 0..PLast :
    /\ j = 0 \/ IsNewTrackLine(pdump[j])
    /\ \A m \in (j + 1)..PLast : ~IsNewTrackLine(pdump[m])

\* C7, the state part: no exception leaves the parse; every entry still comes
\* from a well-formed line; and a well-formed line of an open record is
\* committed by the subtitles type line that follows it even when malformed
\* track-number lines stand between them.
C7_StateOk ==
  /\ ~parser.raised
  /\ EntriesJustified
  /\ \A r, e \in {Id1, Id2, Id3, <<>>} : \A k \in 1..(PLast - 1) :
       (/\ WellFormed(pdump[k], r, e)
        /\ OpenAt(k)
        /\ IsSubsTypeLine(pdump[PLast])
        /\ \A m \in (k + 1)..(PLast - 1) : IsMalformed(pdump[m])) =>
         (r \in DOMAIN parser.track_mapping /\ parser.track_mapping[r] = e)

\* C7, the step part: reading a malformed track-number line changes neither
\* the mapping nor the record in progress, and a subtitles type line closing a
\* record that holds no well-formed track-number line commits nothing.
C7_StepOk ==
  /\ (PLast' = PLast + 1 /\ IsMalformed(pdump'[PLast'])) =>
       /\ parser'.track_mapping = parser.track_mapping
       /\ parser'.current_track = parser.current_track
       /\ parser'.none = parser.none
       /\ ~parser.none => parser'.errors = parser.errors + 1
  /\ (/\ PLast' = PLast + 1
      /\ IsSubsTypeLine(pdump'[PLast'])
      /\ \A m \in (RecordStart + 1)..PLast : ~IsWellFormed(pdump[m])) =>
       parser'.track_mapping = parser.track_mapping

IsNumberLine(l) == IsWellFormed(l) \/ IsMalformed(l)

\* no track record is open where the next line of the dump will stand
NoRecordOpen == ~OpenAt(PLast + 1)

\* C16, the state part: the parser holds a record in progress exactly while a
\* track record of the dump is open, and outside one the record in progress
\* is empty.
C16_StateOk ==
  /\ parser.none <=> NoRecordOpen
  /\ parser.none => parser.current_track = EmptyDict

\* C16, the step part: a track-number line or a subtitles type line read
\* while no track record is open leaves the parser as it was: record in
\* progress, mapping and error count.
C16_StepOk ==
  (/\ PLast' = PLast + 1
   /\ NoRecordOpen
   /\ IsNumberLine(pdump'[PLast']) \/ IsSubsTypeLine(pdump'[PLast'])) =>
    /\ parser'.none /\ parser.none
    /\ parser'.current_track = parser.current_track
    /\ parser'.track_mapping = parser.track_mapping
    /\ parser' = parser

\* C16: a track-number line or a "Track type: subtitles" line standing before
\* any new-track line, or after a "Track type:" line has closed the record and
\* before the next new-track line, changes neither the record in progress nor
\* the mapping: such lines are read only while a track record is open.
C16_IgnoredOutsideRecord == [](C16_StateOk) /\ [][C16_StepOk]_vars

\* C16 witness: a well-formed track-number line and a subtitles type line were
\* read before any new-track line, and again after a video type line closed
\* the only record; the mapping is empty and no record is in progress.
C16_Witness ==
  /\ pdump = <<NumLine(Id3, Id2), LTypeSubs, LNewTrack, LTypeVideo,
               NumLine(Id3, Id2), LTypeSubs>>
  /\ parser.track_mapping = EmptyDict
  /\ parser.none
  /\ parser.errors = 0

(***************************************************************************)
(* Properties of the batch pipeline (Spec).                                *)
(***************************************************************************)
\* the mapping written in the dump of the current file
ExpectedMap == (CHOOSE d \in DumpCases : d.lines = mkvinfo_result.stdout).mapping

\* the reader's Text tracks of the current file: subtitle_tracks[k] was made
\* from TextTracks[k]
TextTracks == SelectSeq(mediainfo_result.stdout.tracks, LAMBDA t : t["@type"] = "Text")

CountFields == {"Count_of_elements", "Count of elements", "ElementCount"}

\* the element count is missing under all three names, or is not a number
CountMissing(raw) == CountFields \cap DOMAIN raw = {}
CountNonNumeric(raw) == \E f \in CountFields \cap DOMAIN raw : raw[f] = SAbc

\* the positions in subtitle_tracks the editor has been run for
Edited == {editor_calls[i].of : i \in 1..Len(editor_calls)}

\* C2: a subtitle track whose element count is missing under all three field
\* names, or is non-numeric, gets should_be_forced = false, and the editor is
\* never run for it.
C2_AmbiguousNotForced ==
  \A k \in 1..Len(subtitle_tracks) :
    (CountMissing(TextTracks[k]) \/ CountNonNumeric(TextTracks[k])) =>
      (~subtitle_tracks[k]["should_be_forced"] /\ k \notin Edited)

\* C3: every editor run addresses the file being processed and the track
\* index that is the editor index written in that file's dump for the track's
\* reader index, plus one.
C3_EditorIndex ==
  \A i \in 1..Len(editor_calls) :
    LET c  == editor_calls[i]
        id == subtitle_tracks[c.of]["id"]
    IN  /\ c.file = mkv_files[file_i]
        /\ id \in DOMAIN ExpectedMap
        /\ c.track = IdNum[ExpectedMap[id]] + 1

\* C3 witness: in the second file of the batch the editor has been run on
\* track 3 for the track of reader index 3, which the dump maps to 2.
C3_Witness ==
  /\ file_i = 2
  /\ \E i \in 1..Len(editor_calls) :
       /\ editor_calls[i].track = 3
       /\ editor_calls[i].file = mkv_files[2]
       /\ subtitle_tracks[editor_calls[i].of]["id"] = Id3
       /\ ExpectedMap[Id3] = Id2

\* C4: the editor is run only for a subtitle track of the current file with
\* should_be_forced = true whose reader index is a key of the identity map, at
\* most once per track, always with flag-forced=1, and never for a track with
\* should_be_forced = false, whatever its forced flag on disk.
C4_OnlyForcedMapped ==
  /\ \A i \in 1..Len(editor_calls) :
       LET c == editor_calls[i]
       IN  /\ c.of \in 1..Len(subtitle_tracks)
           /\ c.of <= Len(TextTracks)
           /\ subtitle_tracks[c.of]["id"] = Get(TextTracks[c.of], "ID", <<"unknown">>)
           /\ c.file = mkv_files[file_i]
           /\ subtitle_tracks[c.of]["should_be_forced"]
           /\ subtitle_tracks[c.of]["id"] \in DOMAIN track_mapping
           /\ c.flag = 1
  /\ \A i, j \in 1..Len(editor_calls) : i # j => editor_calls[i].of # editor_calls[j].of
  /\ \A k \in 1..Len(subtitle_tracks) :
       ~subtitle_tracks[k]["should_be_forced"] => k \notin Edited

\* C4 witness: the apply loop is over; a track forced on disk that is not to
\* be forced was left alone, and a track to be forced was edited.
C4_Witness ==
  /\ pc = "summary"
  /\ \E k, j \in 1..Len(subtitle_tracks) :
       /\ subtitle_tracks[k]["forced"] = "Yes"
       /\ ~subtitle_tracks[k]["should_be_forced"]
       /\ k \notin Edited
       /\ subtitle_tracks[j]["should_be_forced"]
       /\ j \in Edited

\* the positions in subtitle_tracks the apply loop has passed
Applied == {tracks_to_force[i] : i \in 1..(apply_i - 1)}

\* every file of the batch has been gone through when the loop ends
AllFilesProcessed ==
  pc = "finished" => \A f \in 1..Len(file_status) : file_status[f] # "pending"

\* C5, the state part: a track to be forced whose reader index is absent from
\* the map gets no editor run and the outcome failed; the apply loop still
\* reaches every other track to be forced, running the editor once for each
\* whose reader index is mapped to a number; and every file is gone through.
C5_StateOk ==
  /\ \A k \in Applied :
       /\ "modified" \in DOMAIN subtitle_tracks[k]
       /\ subtitle_tracks[k]["id"] \notin DOMAIN ExpectedMap =>
            (~subtitle_tracks[k]["modified"] /\ k \notin Edited)
       /\ (/\ subtitle_tracks[k]["id"] \in DOMAIN ExpectedMap
           /\ ExpectedMap[subtitle_tracks[k]["id"]] \in DOMAIN IdNum) =>
            Cardinality({i \in 1..Len(editor_calls) : editor_calls[i].of = k}) = 1
  /\ pc \in {"summary", "next"} => apply_i = Len(tracks_to_force) + 1
  /\ AllFilesProcessed

\* C5, the step part: the iteration of the apply loop on a track absent from
\* the map changes nothing but that track's outcome and the log, and goes on
\* to the next track.
C5_StepOk ==
  (/\ pc = "apply"
   /\ apply_i' # apply_i
   /\ subtitle_tracks[tracks_to_force[apply_i]]["id"] \notin DOMAIN ExpectedMap) =>
    /\ editor_calls' = editor_calls
    /\ apply_i' = apply_i + 1
    /\ pc' = IF apply_i < Len(tracks_to_force) THEN "apply" ELSE "summary"
    /\ UNCHANGED <<track_mapping, tracks_to_force, file_status, file_i, mkv_files>>
    /\ \A k \in 1..Len(subtitle_tracks) :
         k # tracks_to_force[apply_i] => subtitle_tracks'[k] = subtitle_tracks[k]

\* C5: a track classified should-be-forced whose reader index is absent from
\* the identity map gets no editor run and the outcome failed, and the other
\* should-be-forced tracks of the file and the other files of the batch are
\* processed all the same.
C5_AbsentFailsOthersGoOn == [](C5_StateOk) /\ [][C5_StepOk]_vars

\* C5 witness: the apply loop is over; its first track was absent from the map
\* and failed without an editor run, its second track was edited with success.
C5_Witness ==
  /\ pc = "summary"
  /\ Len(tracks_to_force) = 2
  /\ subtitle_tracks[tracks_to_force[1]]["id"] \notin DOMAIN track_mapping
  /\ ~subtitle_tracks[tracks_to_force[1]]["modified"]
  /\ tracks_to_force[1] \notin Edited
  /\ tracks_to_force[2] \in Edited
  /\ subtitle_tracks[tracks_to_force[2]]["modified"]

\* the reader or the dumper failed for the current file: a nonzero exit
\* status, no launch, or reader output that cannot be parsed
ScanFailed ==
  \/ mediainfo_result.launched /\ mediainfo_result.returncode # 0
  \/ mediainfo_result.launched /\ mediainfo_result.stdout.kind \in {"notjson", "nomedia"}
  \/ mkvinfo_result.launched /\ mkvinfo_result.returncode # 0
  \/ pc = "next" /\ ~(mediainfo_result.launched /\ mkvinfo_result.launched)

\* C8, the state part: a file whose scan failed gets no editor run and no
\* classification, and the loop goes through every file.
C8_StateOk ==
  /\ ScanFailed => (editor_calls = <<>> /\ tracks_to_force = <<>>)
  /\ AllFilesProcessed

\* C8, the step part: after a file, whatever became of it, the next file of
\* the list is scanned.
C8_StepOk ==
  (pc = "next" /\ file_i < Len(mkv_files)) => (pc' = "scan" /\ file_i' = file_i + 1)

\* C8: when the reader or the dumper returns nonzero, cannot be launched, or
\* the reader output cannot be parsed, the editor is not run for that file and
\* the batch goes on to the next file.
C8_BadFileIsolated == [](C8_StateOk) /\ [][C8_StepOk]_vars

\* C8 witness: the first file failed to scan and the second file has been
\* edited with success.
C8_Witness ==
  /\ file_i = 2
  /\ file_status[1] \in {"errored", "skipped"}
  /\ \E i \in 1..Len(editor_calls) : editor_calls[i].outcome = "ok"

\* the two ends of a file's processing: Done (the final report of lines
\* 249-256, or "no subtitle tracks" at line 259), and Errored, the file given
\* up with nothing edited: on an exception (line 261), or on a nonzero exit of
\* the reader or the dumper (the test of line 176 fails)
FileDone(f) == file_status[f] = "done"
FileErrored(f) == file_status[f] \in {"errored", "skipped"}
FileEnded(f) == FileDone(f) \/ FileErrored(f)

\* the steps of the loop body, from the first tool run to the final report
InFile == pc \in {"scan", "parse", "classify", "apply", "summary"}

\* C11, the state part: the list holds .mkv names only, each once; the files
\* before the current one have ended, those after it are untouched, the
\* current one has ended exactly when the loop body is left; every tool run
\* recorded is one on the current file; and at the end every file has ended in
\* Done or in Errored.
C11_StateOk ==
  /\ pc # "start" => Len(file_status) = Len(mkv_files)
  /\ file_i \in 0..Len(mkv_files)
  /\ InFile \/ pc = "next" => file_i \in 1..Len(mkv_files)
  /\ \A f \in 1..Len(mkv_files) : is_mkv(mkv_files[f])
  /\ \A f, g \in 1..Len(mkv_files) : f # g => mkv_files[f] # mkv_files[g]
  /\ \A f \in 1..Len(file_status) :
       /\ file_status[f] = "pending" \/ FileEnded(f)
       /\ f < file_i => FileEnded(f)
       /\ f > file_i => file_status[f] = "pending"
       /\ f = file_i => (FileEnded(f) <=> ~InFile)
  /\ \A i \in 1..Len(editor_calls) : editor_calls[i].file = mkv_files[file_i]
  /\ pc = "finished" =>
       /\ file_i = Len(mkv_files)
       /\ \A f \in 1..Len(file_status) : FileEnded(f)

\* C11, the step part: the list is fixed once made; the loop body is entered
\* only with the next file of the list, from the listing or from the end of
\* the file before; and the end a file has come to is never changed.
C11_StepOk ==
  /\ pc # "start" => mkv_files' = mkv_files
  /\ file_i' \in {file_i, file_i + 1}
  /\ (pc' = "scan") <=> (file_i' = file_i + 1)
  /\ file_i' = file_i + 1 => pc \in {"start", "next"}
  /\ pc # "start" =>
       \A f \in 1..Len(file_status) :
         file_status[f] # "pending" => file_status'[f] = file_status[f]

\* C11: whatever the listing and whatever the tools return, every listed .mkv
\* file is processed exactly once, one after the other in listing order, each
\* ending in Done or in Errored, and then the batch driver terminates.
C11_EveryFileOnceThenStops ==
  /\ [](C11_StateOk)
  /\ [][C11_StepOk]_vars
  /\ <>[](pc = "finished")

\* C11 witness: a batch of two files is over; the first ended in Errored on an
\* exception, the second in Done.
C11_Witness ==
  /\ pc = "finished"
  /\ Len(mkv_files) = 2
  /\ file_status = <<"errored", "done">>

\* the steps of one file in the order of the code, with the ways out of them:
\* Scanning (scan), Reconciling (parse), Classifying (classify), Applying
\* (apply), Done (summary), and next once the file is left
StepOrder ==
  {<<"start", "scan">>, <<"start", "finished">>,
   <<"scan", "parse">>, <<"parse", "classify">>,
   <<"classify", "apply">>, <<"classify", "summary">>,
   <<"apply", "apply">>, <<"apply", "summary">>, <<"summary", "next">>,
   <<"scan", "next">>, <<"parse", "next">>, <<"classify", "next">>,
   <<"next", "scan">>, <<"next", "finished">>}

\* both tools have run on the current file and returned zero
ScannedOk ==
  /\ mediainfo_result.launched /\ mediainfo_result.returncode = 0
  /\ mkvinfo_result.launched /\ mkvinfo_result.returncode = 0

\* the identity map of the current file is built: it is the mapping written
\* in the file's dump
MapBuilt == track_mapping = ExpectedMap

\* every Text track of the reader output has its record, and every record
\* its classification
AllClassified ==
  /\ mediainfo_result.stdout.kind = "tracks"
  /\ Len(subtitle_tracks) = Len(TextTracks)
  /\ \A k \in 1..Len(subtitle_tracks) : "should_be_forced" \in DOMAIN subtitle_tracks[k]

\* C13, the state part: any editor run recorded for the current file stands
\* after the zero exits of reader and dumper, the built map and the
\* classification of every track; and the steps after the scan are reached
\* only with what the steps before them have made.
C13_StateOk ==
  /\ editor_calls # <<>> => (ScannedOk /\ MapBuilt /\ AllClassified)
  /\ editor_calls # <<>> => pc \in {"apply", "summary", "next"}
  /\ pc \in {"parse", "classify", "apply", "summary"} => ScannedOk
  /\ pc \in {"classify", "apply", "summary"} => MapBuilt
  /\ pc \in {"apply", "summary"} => AllClassified
  /\ pc \in {"start", "scan", "finished"} => ~mediainfo_result.launched /\ ~mkvinfo_result.launched

\* C13, the step part: the steps follow the order of the code; the editor is
\* run only in the apply step, one run at a time, on the current file, when
\* scan, map and classification are complete; reader and dumper are run only
\* in the scan step; every tool run leaves the current file the current one,
\* and the loop never goes back to a file it has left.
C13_StepOk ==
  /\ <<pc, pc'>> \in StepOrder
  /\ editor_calls' # editor_calls /\ pc # "next" =>
       /\ pc = "apply"
       /\ ScannedOk /\ MapBuilt /\ AllClassified
       /\ \E c \in {editor_calls'[Len(editor_calls')]} :
            /\ editor_calls' = Append(editor_calls, c)
            /\ c.file = mkv_files[file_i]
       /\ file_i' = file_i
       /\ UNCHANGED <<mediainfo_result, mkvinfo_result, track_mapping>>
  /\ (mediainfo_result'.launched /\ mediainfo_result' # mediainfo_result) =>
       (pc = "scan" /\ ~mediainfo_result.launched /\ editor_calls = <<>> /\ file_i' = file_i)
  /\ (mkvinfo_result'.launched /\ mkvinfo_result' # mkvinfo_result) =>
       (pc = "scan" /\ ~mkvinfo_result.launched /\ mediainfo_result'.launched
        /\ editor_calls = <<>> /\ file_i' = file_i)
  /\ file_i' >= file_i
  /\ file_i' # file_i => (pc' = "scan" /\ editor_calls' = <<>>
                          /\ ~mediainfo_result'.launched /\ ~mkvinfo_result'.launched)

\* C13: within one file the steps occur in the order Scanning, Reconciling,
\* Classifying, Applying, Done: the editor is never run on a file before the
\* reader and the dumper have both returned zero for it, before its identity
\* map is built, or before every subtitle track of it is classified; and no
\* tool is run for a file after the first tool run for the next file.
C13_StepsInOrder == [](C13_StateOk) /\ [][C13_StepOk]_vars

\* C13 witness: the first file ended in Done, and in the second file the apply
\* loop has run the editor once and has a track left to go.
C13_Witness ==
  /\ file_i = 2
  /\ file_status[1] = "done"
  /\ pc = "apply"
  /\ Len(editor_calls) = 1
  /\ ScannedOk /\ MapBuilt /\ AllClassified

\* the current file has reached Done: its final report is being written, or
\* it has been left with the status done
ReachedDone == pc = "summary" \/ (pc = "next" /\ file_status[file_i] = "done")

\* the editor was run for the track at position k and returned exit status 0
EditedWithExitZero(k) ==
  \E i \in 1..Len(editor_calls) :
    editor_calls[i].of = k /\ editor_calls[i].outcome \in {"ok", "warned"}

\* C14: when a file reaches Done, exactly the tracks with should_be_forced =
\* true carry a modification outcome; the outcome is succeeded iff the editor
\* was run for the track and returned exit status zero, text on stderr or not,
\* and failed otherwise; and at no time does a track that is not to be forced
\* carry an outcome.
C14_OutcomeForForcedOnly ==
  /\ \A k \in 1..Len(subtitle_tracks) :
       "modified" \in DOMAIN subtitle_tracks[k] =>
         /\ subtitle_tracks[k]["should_be_forced"]
         /\ subtitle_tracks[k]["modified"] \in BOOLEAN
  /\ ReachedDone =>
       \A k \in 1..Len(subtitle_tracks) :
         /\ subtitle_tracks[k]["should_be_forced"] <=>
              "modified" \in DOMAIN subtitle_tracks[k]
         /\ subtitle_tracks[k]["should_be_forced"] =>
              (subtitle_tracks[k]["modified"] <=> EditedWithExitZero(k))

\* C14 witness: a file has reached Done with one track whose editor run
\* returned zero with text on stderr and is recorded succeeded, and one track
\* not to be forced that carries no outcome.
C14_Witness ==
  /\ pc = "next"
  /\ file_status[file_i] = "done"
  /\ \E k, j \in 1..Len(subtitle_tracks) :
       /\ subtitle_tracks[k]["should_be_forced"]
       /\ subtitle_tracks[k]["modified"]
       /\ \E i \in 1..Len(editor_calls) :
            editor_calls[i].of = k /\ editor_calls[i].outcome = "warned"
       /\ ~subtitle_tracks[j]["should_be_forced"]
       /\ "modified" \notin DOMAIN subtitle_tracks[j]

\* the positions of the tracks of the current file sharing the language of
\* track k (k included)
LanguageGroup(k) ==
  {j \in 1..Len(subtitle_tracks) :
     subtitle_tracks[j]["language"] = subtitle_tracks[k]["language"]}

\* some track of the language group of track k has a count int() rejects
GroupHasNonNumeric(k) ==
  \E j \in LanguageGroup(k) : ~IntParses(subtitle_tracks[j]["element_count"])

\* the largest count of the language group of track k, the group all numeric
LanguageGroupMax(k) ==
  CHOOSE m \in {int(subtitle_tracks[j]["element_count"]) : j \in LanguageGroup(k)} :
    \A j \in LanguageGroup(k) : int(subtitle_tracks[j]["element_count"]) <= m

\* C15: a track whose language group holds a non-numeric element count, its
\* own count numeric and below 400 or not, is classified not to be forced,
\* gets no percentage, no editor run and no outcome; a track whose language
\* group is all numeric is classified from the counts of its own group alone,
\* whatever non-numeric counts the other groups of the file hold.
C15_NonNumericGroupNotForced ==
  \A k \in 1..Len(subtitle_tracks) :
    IF GroupHasNonNumeric(k)
      THEN /\ ~subtitle_tracks[k]["should_be_forced"]
           /\ "percentage" \notin DOMAIN subtitle_tracks[k]
           /\ "modified" \notin DOMAIN subtitle_tracks[k]
           /\ k \notin Edited
      ELSE LET ec == int(subtitle_tracks[k]["element_count"])
               mx == LanguageGroupMax(k)
               t  == subtitle_tracks[k]
           IN  /\ t["should_be_forced"] = (ec < 400 \/ (mx > 0 /\ 100 * ec < 20 * mx))
               /\ "percentage" \in DOMAIN t
               /\ IF mx > 0 THEN t["percentage"].num * mx = 100 * ec * t["percentage"].den
                            ELSE t["percentage"].num = 100 * t["percentage"].den

\* C15 witness: a file has reached Done holding a track of 50 elements and a
\* track of the same language with a non-numeric count; neither is to be
\* forced or has a percentage, and the editor was not run.
C15_Witness ==
  /\ pc = "next"
  /\ file_status[file_i] = "done"
  /\ editor_calls = <<>>
  /\ \E k, j \in 1..Len(subtitle_tracks) :
       /\ j \in LanguageGroup(k)
       /\ subtitle_tracks[k]["element_count"] = <<"5", "0">>
       /\ ~IntParses(subtitle_tracks[j]["element_count"])
       /\ ~subtitle_tracks[k]["should_be_forced"]
       /\ ~subtitle_tracks[j]["should_be_forced"]
       /\ "percentage" \notin DOMAIN subtitle_tracks[k]
       /\ "percentage" \notin DOMAIN subtitle_tracks[j]

\* C9: when processing moves on from a file, an error-level record has been
\* logged for a nonzero exit status of the reader or the dumper, and for every
\* editor run that returned nonzero or could not be launched.
C9_FailuresLogged ==
  pc = "next" =>
    /\ ((mediainfo_result.launched /\ mediainfo_result.returncode # 0)
        \/ (mkvinfo_result.launched /\ mkvinfo_result.returncode # 0)) =>
         \E r \in log_errors : r.track = 0
    /\ \A i \in 1..Len(editor_calls) :
         editor_calls[i].outcome \in {"failed", "oserror"} =>
           \E r \in log_errors : r.track = editor_calls[i].of

====
